---------------------------- MODULE Spec2Model ----------------------------
(***************************************************************************)
(* A model of cmd/openapi-spec-converter/main.go: the conversion           *)
(* orchestrator convertDocument with its four single-step conversions,     *)
(* the schema visitor (updateSchemaAndReferencedSchema, updateAllSchema)   *)
(* the per-fragment rules of the 3.0 <-> 3.1 migration, and the downgrade  *)
(* normalizer that works on the Swagger 2.0 document.                      *)
(*                                                                         *)
(* The specifications share the variables:                                 *)
(*   Spec           convertDocument, from its call to its return           *)
(*   SpecVisit      the visitor and updateAllSchema over a document of     *)
(*                  schema fragments                                       *)
(*   SpecRule       the nullability rules applied to one fragment          *)
(*   SpecBounds     the minimum/maximum rules applied to one fragment      *)
(*   SpecExample    the example rules applied to one fragment              *)
(*   SpecFormat     the binary string encoding rules applied to one        *)
(*                  fragment                                               *)
(*   SpecRequired   the required/read-only rule applied to one fragment    *)
(*   SpecUnion      the nullability rules applied to a fragment that has   *)
(*                  a oneOf already                                        *)
(*   SpecCallback   the callbacks of the three steps applied to one        *)
(*                  fragment                                               *)
(*   SpecNormalize  addDefaultErrorResponses over a Swagger 2.0 document   *)
(*   SpecOperation  the functions of the downgrade normalizer applied to   *)
(*                  one operation                                          *)
(***************************************************************************)
EXTENDS Integers, Sequences, FiniteSets, TLC

VARIABLES
    \* ---- convertDocument ----
    pc,             \* "start" (before detection), "loop", "done"
    input,          \* the bytes handed to convertDocument, as what is read of them
    outputVersion,  \* the outputVersion parameter
    inputVersion,   \* the local inputVersion
    data,           \* the local data
    err,            \* the local err
    steps,          \* the single-step conversions called so far, oldest first
    log,            \* the calls made inside the steps, oldest first
    retData,        \* the returned []byte
    retErr,         \* the returned error
    \* ---- schema fragments ----
    schemas,        \* the heap of *base.Schema: id -> fragment
    schemas0,       \* the heap as it was built by the Document Model Builder
    doc,            \* the v3.Document: where the root fragments are attached
    calls,          \* the fragments the callback has been invoked on, in order
    started,        \* the fragments updateSchemaAndReferencedSchema was called on
    hist,           \* the operations applied so far, oldest first
    \* ---- Swagger 2.0 document ----
    kinSwaggerDoc,  \* the *openapi2.T the downgrade normalizer works on
    kinSwaggerDoc0  \* the document as openapi2conv.FromV3 returned it

orchVars == <<pc, input, outputVersion, inputVersion, data, err, steps, log, retData, retErr>>
schemaVars == <<schemas, schemas0, doc, calls, started, hist>>
swaggerVars == <<kinSwaggerDoc, kinSwaggerDoc0>>
vars == <<pc, input, outputVersion, inputVersion, data, err, steps, log, retData, retErr,
          schemas, schemas0, doc, calls, started, hist, kinSwaggerDoc, kinSwaggerDoc0>>

Range(s) == {s[i] : i \in 1..Len(s)}

(***************************************************************************)
(* SpecVersion, main.go:28-34.                                             *)
(***************************************************************************)
Swagger == 0
OpenAPI30 == 1
OpenAPI31 == 2
SpecVersion == {Swagger, OpenAPI30, OpenAPI31}

(***************************************************************************)
(* Errors.  An error is its message, as the sequence of the words of its   *)
(* format string followed by the messages of the errors it was built from, *)
(* together with whether it wraps those errors (%w, errors.Join).          *)
(***************************************************************************)
NilErr == [isNil |-> TRUE, ctx |-> <<>>, causes |-> <<>>, wraps |-> FALSE]

\* fmt.Errorf(format + "%w", cause)
Errorf(format, cause) ==
    [isNil |-> FALSE, ctx |-> format, causes |-> <<cause>>, wraps |-> TRUE]

\* fmt.Errorf(format) or fmt.Errorf(format + "%s", text): nothing is wrapped
ErrorfText(format, text) ==
    [isNil |-> FALSE, ctx |-> format \o text, causes |-> <<>>, wraps |-> FALSE]

\* errors.Join(errs...): the messages of errs, no context of its own
ErrorsJoin(cause) ==
    [isNil |-> FALSE, ctx |-> <<>>, causes |-> <<cause>>, wraps |-> TRUE]

\* an error of a library passed on as it is
RawErr(cause) ==
    [isNil |-> FALSE, ctx |-> <<>>, causes |-> <<cause>>, wraps |-> FALSE]

(***************************************************************************)
(* Documents as bytes.  A document is its version marker, its notation     *)
(* and the list of the operations that have rewritten it since it was      *)
(* handed to convertDocument.                                              *)
(***************************************************************************)
NilData == [isNil |-> TRUE, whole |-> FALSE, marker |-> "", format |-> "", applied |-> <<>>]

Bytes(marker, format, applied) ==
    [isNil |-> FALSE, whole |-> TRUE, marker |-> marker, format |-> format, applied |-> applied]

\* what a failed MarshalJSON may hand back beside its error
PartialData(d) == [d EXCEPT !.whole = FALSE]

(***************************************************************************)
(* The calls a single-step conversion makes, in the order it makes them.   *)
(* A call is its name, how a failure of it is turned into the step's       *)
(* error ("none" when the call cannot fail) with the words of the format   *)
(* string, and whether it rewrites the document.                           *)
(***************************************************************************)
Call(name, onError, format, rewrites) ==
    [name |-> name, onError |-> onError, format |-> format, rewrites |-> rewrites]

\* convertSwaggerToOpenAPI30, main.go:855-879
CallsSwaggerToOpenAPI30(d) ==
    << Call("checkDataFormat", "none", <<>>, FALSE) >>
    \o (IF d.format # "JSON"
        THEN << Call("ghodssYaml.YAMLToJSON", "errorf",
                     <<"Error", "converting", "Swagger", "YAML", "to", "JSON:">>, FALSE) >>
        ELSE <<>>)
    \o << Call("UnmarshalSwagger", "errorf", <<"Error", "loading", "Swagger", "data:">>, FALSE),
          Call("openapi2conv.ToV3", "errorf",
               <<"Error", "converting", "Swagger", "to", "3.0">>, TRUE),
          Call("MarshalJSON", "raw", <<>>, FALSE) >>

\* the Downgrade Normalizer: main.go:951 and the passes of main.go:752-837
NormalizerCalls ==
    << Call("fixSwaggerDocUploadFormats", "none", <<>>, TRUE),
       Call("addDefaultErrorResponses.Definitions", "none", <<>>, TRUE),
       Call("copyDescriptionToSummary", "none", <<>>, TRUE),
       Call("deduplicateTags", "none", <<>>, TRUE),
       Call("addDefaultErrorResponseToOperation", "none", <<>>, TRUE) >>

\* convertOpenAPI30ToSwagger with addDefaultErrorResponses called a second time
CallsOpenAPI30ToSwaggerTwice(d) ==
    << Call("libopenapi.NewDocument", "errorf", <<"Error", "loading", "document:">>, FALSE),
       Call("BuildV3Model", "errorf", <<"Errors", "loading", "document:">>, FALSE),
       Call("updateAllSchema.make30RequiredAndReadonlyPropertiesOnlyReadonly",
            "none", <<>>, TRUE),
       Call("ensureRequestBodyContentSchemas", "none", <<>>, TRUE),
       Call("RenderAndReload", "join", <<>>, FALSE),
       Call("openapi3.LoadFromData", "errorf",
            <<"Error", "Load", "3.0", "for", "converting", "to", "Swagger">>, FALSE),
       Call("openapi2conv.FromV3", "errorf",
            <<"Error", "converting", "3.0", "to", "Swagger">>, TRUE) >>
    \o NormalizerCalls
    \o SubSeq(NormalizerCalls, 2, Len(NormalizerCalls))
    \o << Call("MarshalJSON", "raw", <<>>, FALSE) >>

\* convertOpenAPI30ToSwagger, main.go:906-957
CallsOpenAPI30ToSwagger(d) ==
    << Call("libopenapi.NewDocument", "errorf", <<"Error", "loading", "document:">>, FALSE),
       Call("BuildV3Model", "errorf", <<"Errors", "loading", "document:">>, FALSE),
       Call("updateAllSchema.make30RequiredAndReadonlyPropertiesOnlyReadonly",
            "none", <<>>, TRUE),
       Call("ensureRequestBodyContentSchemas", "none", <<>>, TRUE),
       Call("RenderAndReload", "join", <<>>, FALSE),
       Call("openapi3.LoadFromData", "errorf",
            <<"Error", "Load", "3.0", "for", "converting", "to", "Swagger">>, FALSE),
       Call("openapi2conv.FromV3", "errorf",
            <<"Error", "converting", "3.0", "to", "Swagger">>, TRUE) >>
    \o NormalizerCalls
    \o << Call("MarshalJSON", "raw", <<>>, FALSE) >>

\* convertOpenAPI30To31, main.go:970-1017
CallsOpenAPI30To31(d) ==
    << Call("libopenapi.NewDocument", "errorf", <<"Error", "loading", "document:">>, FALSE),
       Call("BuildV3Model", "errorf", <<"Errors", "loading", "document:">>, FALSE),
       Call("Version=3.1.1", "none", <<>>, TRUE),
       Call("clear30RequestFileContentSchemaFor31", "none", <<>>, TRUE),
       Call("updateAllSchema.convert30To31", "none", <<>>, TRUE),
       Call("RenderAndReload", "join", <<>>, FALSE) >>

\* convertOpenAPI31To30, main.go:1040-1087
CallsOpenAPI31To30(d) ==
    << Call("libopenapi.NewDocument", "errorf", <<"Error", "loading", "document:">>, FALSE),
       Call("BuildV3Model", "errorf", <<"Errors", "loading", "document:">>, FALSE),
       Call("Version=3.0.4", "none", <<>>, TRUE),
       Call("set31RequestFileContentSchemaFor30", "none", <<>>, TRUE),
       Call("updateAllSchema.convert31To30", "none", <<>>, TRUE),
       Call("remove31OnlyFields", "none", <<>>, TRUE),
       Call("RenderAndReload", "join", <<>>, FALSE) >>

StepNames == {"convertSwaggerToOpenAPI30", "convertOpenAPI30To31",
              "convertOpenAPI31To30", "convertOpenAPI30ToSwagger"}

CallsOf(step, d) ==
    CASE step = "convertSwaggerToOpenAPI30" -> CallsSwaggerToOpenAPI30(d)
      [] step = "convertOpenAPI30To31"      -> CallsOpenAPI30To31(d)
      [] step = "convertOpenAPI31To30"      -> CallsOpenAPI31To30(d)
      [] step = "convertOpenAPI30ToSwagger" -> CallsOpenAPI30ToSwagger(d)

\* The version marker of the document a step writes: main.go:994 and :1056 set
\* it; ToV3 and FromV3 of kin-openapi write theirs (main.go:841, :883).
MarkerWritten(step) ==
    CASE step = "convertSwaggerToOpenAPI30" -> "3.0.3"
      [] step = "convertOpenAPI30To31"      -> "3.1.1"
      [] step = "convertOpenAPI31To30"      -> "3.0.4"
      [] step = "convertOpenAPI30ToSwagger" -> "2.0"

\* The notation of the bytes a step returns: MarshalJSON of kin-openapi writes
\* JSON, RenderAndReload of libopenapi keeps the notation it read.
FormatWritten(step, d) ==
    IF step \in {"convertSwaggerToOpenAPI30", "convertOpenAPI30ToSwagger"}
    THEN "JSON" ELSE d.format

\* The error a step returns when its call c fails with the library error cause.
StepError(c, cause) ==
    CASE c.onError = "errorf" -> Errorf(c.format, cause)
      [] c.onError = "join"   -> ErrorsJoin(cause)
      [] c.onError = "raw"    -> RawErr(cause)

\* The positions of the calls of cs that can fail.
FailPoints(cs) == {i \in 1..Len(cs) : cs[i].onError # "none"}

RewritesOf(cs) == SelectSeq(cs, LAMBDA c : c.rewrites)
NamesOf(cs) == [i \in 1..Len(cs) |-> cs[i].name]

(***************************************************************************)
(* One single-step conversion of d.  failAt = 0: no call fails; otherwise  *)
(* the call at position failAt fails, the calls after it are not made and  *)
(* the step returns nil with the error, except that the final MarshalJSON  *)
(* is returned as it is, bytes and error (partial: whether it handed back  *)
(* bytes beside its error).  Result: the bytes, the error, the calls made. *)
(***************************************************************************)
RunStep(step, d, failAt, partial) ==
    LET cs   == CallsOf(step, d)
        out  == Bytes(MarkerWritten(step), FormatWritten(step, d),
                      d.applied \o NamesOf(RewritesOf(cs)))
    IN  IF failAt = 0
        THEN [data |-> out, err |-> NilErr, made |-> NamesOf(cs)]
        ELSE [data |-> IF cs[failAt].onError = "raw" /\ partial
                       THEN PartialData(out) ELSE NilData,
              err  |-> StepError(cs[failAt], cs[failAt].name),
              made |-> NamesOf(SubSeq(cs, 1, failAt))]

(***************************************************************************)
(* convertDocument, main.go:1104-1163.                                     *)
(***************************************************************************)
\* The version markers the inputs are drawn from: the nine recognised ones,
\* the empty one (field absent) and some the switch does not know.
Markers == {"", "2.0", "3.0.0", "3.0.1", "3.0.2", "3.0.3", "3.0.4", "3.1.0", "3.1.1",
            "1.2", "3.0", "3.2.0"}
Formats == {"JSON", "YAML"}

\* What yaml.Unmarshal reads of the bytes into BasicDoc (main.go:1106-1114),
\* and the notation checkDataFormat sees.
Inputs ==
    [parseOK : {TRUE}, OpenAPI : Markers, Swagger : Markers, format : Formats]
    \cup [parseOK : {FALSE}, OpenAPI : {""}, Swagger : {""}, format : Formats]

\* main.go:1116-1119: the openapi field, or the swagger field when it is empty
VersionString(in) == IF in.OpenAPI = "" THEN in.Swagger ELSE in.OpenAPI

\* the switch matching the bare "3.0" as well
ClassifyVersionLoose(marker) ==
    CASE marker = "2.0" -> [ok |-> TRUE, version |-> Swagger]
      [] marker \in {"3.0", "3.0.0", "3.0.1", "3.0.2", "3.0.3", "3.0.4"}
                        -> [ok |-> TRUE, version |-> OpenAPI30]
      [] marker \in {"3.1.0", "3.1.1"} -> [ok |-> TRUE, version |-> OpenAPI31]
      [] OTHER -> [ok |-> FALSE, version |-> Swagger]

\* main.go:1124-1133: the switch over the version string
ClassifyVersion(marker) ==
    CASE marker = "2.0" -> [ok |-> TRUE, version |-> Swagger]
      [] marker \in {"3.0.0", "3.0.1", "3.0.2", "3.0.3", "3.0.4"}
                        -> [ok |-> TRUE, version |-> OpenAPI30]
      [] marker \in {"3.1.0", "3.1.1"} -> [ok |-> TRUE, version |-> OpenAPI31]
      [] OTHER -> [ok |-> FALSE, version |-> Swagger]

\* the loop entered once more when the dialects are already equal
LoopCondInclusive(iv, ov) == iv <= ov

\* main.go:1138: the condition of the for loop
LoopCond(iv, ov) == iv # ov

\* the two downgrade branches exchanged
ChooseStepSwapped(iv, ov) ==
    IF iv < ov
    THEN IF iv = Swagger THEN "convertSwaggerToOpenAPI30" ELSE "convertOpenAPI30To31"
    ELSE IF iv = OpenAPI30 THEN "convertOpenAPI31To30" ELSE "convertOpenAPI30ToSwagger"

\* main.go:1139-1155: the single-step conversion the loop body calls
ChooseStep(iv, ov) ==
    IF iv < ov
    THEN IF iv = Swagger THEN "convertSwaggerToOpenAPI30" ELSE "convertOpenAPI30To31"
    ELSE IF iv = OpenAPI31 THEN "convertOpenAPI31To30" ELSE "convertOpenAPI30ToSwagger"

\* main.go:1142, 1145, 1150, 1153: the dialect the loop body assigns to
\* inputVersion after the call
DeclaredOutput(step) ==
    CASE step = "convertSwaggerToOpenAPI30" -> OpenAPI30
      [] step = "convertOpenAPI30To31"      -> OpenAPI31
      [] step = "convertOpenAPI31To30"      -> OpenAPI30
      [] step = "convertOpenAPI30ToSwagger" -> Swagger

\* main.go:1157-1159: whether the loop body returns after the call
ReturnsOnError(e) == ~e.isNil

\* the bytes of the failed step returned with its error
BytesOnErrorKept(d) == d

\* main.go:1158: the bytes returned with the error of a failed step
BytesOnError(d) == NilData

InitOrch ==
    /\ pc = "start"
    /\ input \in Inputs
    /\ outputVersion \in SpecVersion
    /\ inputVersion = Swagger
    /\ data = Bytes(VersionString(input), input.format, <<>>)
    /\ err = NilErr
    /\ steps = <<>>
    /\ log = <<>>
    /\ retData = NilData
    /\ retErr = NilErr

IdleOrch ==
    /\ pc = "idle"
    /\ input = [parseOK |-> FALSE, OpenAPI |-> "", Swagger |-> "", format |-> "JSON"]
    /\ outputVersion = Swagger
    /\ inputVersion = Swagger
    /\ data = NilData
    /\ err = NilErr
    /\ steps = <<>>
    /\ log = <<>>
    /\ retData = NilData
    /\ retErr = NilErr

\* main.go:1105-1133: read the version marker and classify it
Detect ==
    /\ pc = "start"
    /\ IF ~input.parseOK
       THEN /\ pc' = "done"
            /\ retData' = NilData
            /\ retErr' = ErrorfText(<<"Cannot", "parse", "Swagger", "or", "OpenAPI",
                                      "document">>, <<>>)
            /\ UNCHANGED inputVersion
       ELSE LET c == ClassifyVersion(VersionString(input))
            IN  IF c.ok
                THEN /\ pc' = "loop"
                     /\ inputVersion' = c.version
                     /\ UNCHANGED <<retData, retErr>>
                ELSE /\ pc' = "done"
                     /\ retData' = NilData
                     /\ retErr' = ErrorfText(<<"Unsuppoted", "input", "document", "OpenAPI",
                                               "version:">>, <<VersionString(input)>>)
                     /\ UNCHANGED inputVersion
    /\ UNCHANGED <<input, outputVersion, data, err, steps, log>>
    /\ UNCHANGED schemaVars
    /\ UNCHANGED swaggerVars

\* main.go:1138-1160: one pass of the loop body calling the given step
LoopBody(step) ==
    /\ LoopCond(inputVersion, outputVersion)
    /\ ChooseStep(inputVersion, outputVersion) = step
    /\ \E failAt \in {0} \cup FailPoints(CallsOf(step, data)), partial \in BOOLEAN :
          LET r == RunStep(step, data, failAt, partial)
              k == Len(steps) + 1
          IN  /\ (partial => failAt # 0 /\ CallsOf(step, data)[failAt].onError = "raw")
              /\ data' = r.data
              /\ err' = r.err
              /\ inputVersion' = DeclaredOutput(step)
              /\ steps' = Append(steps, [name |-> step, from |-> inputVersion,
                                         to |-> DeclaredOutput(step), ok |-> r.err.isNil])
              /\ log' = log \o [i \in 1..Len(r.made) |->
                                  [step |-> k, op |-> r.made[i],
                                   ok |-> (failAt = 0 \/ i < failAt)]]
              /\ IF ReturnsOnError(r.err)
                 THEN /\ pc' = "done"
                      /\ retData' = BytesOnError(r.data)
                      /\ retErr' = r.err
                 ELSE /\ pc' = "loop"
                      /\ UNCHANGED <<retData, retErr>>
    /\ UNCHANGED <<input, outputVersion>>
    /\ UNCHANGED schemaVars
    /\ UNCHANGED swaggerVars

ConvertSwaggerToOpenAPI30 ==
    /\ pc = "loop"
    /\ LoopBody("convertSwaggerToOpenAPI30")
ConvertOpenAPI30To31 ==
    /\ pc = "loop"
    /\ LoopBody("convertOpenAPI30To31")
ConvertOpenAPI31To30 ==
    /\ pc = "loop"
    /\ LoopBody("convertOpenAPI31To30")
ConvertOpenAPI30ToSwagger ==
    /\ pc = "loop"
    /\ LoopBody("convertOpenAPI30ToSwagger")

\* main.go:1162: the loop has ended
Return ==
    /\ pc = "loop"
    /\ ~LoopCond(inputVersion, outputVersion)
    /\ pc' = "done"
    /\ retData' = data
    /\ retErr' = err
    /\ UNCHANGED <<input, outputVersion, inputVersion, data, err, steps, log>>
    /\ UNCHANGED schemaVars
    /\ UNCHANGED swaggerVars

(***************************************************************************)
(* Spec: convertDocument from its call to its return.                      *)
(***************************************************************************)
IdleSchema ==
    /\ schemas = <<>>
    /\ schemas0 = <<>>
    /\ doc = <<>>
    /\ calls = <<>>
    /\ started = <<>>
    /\ hist = <<>>

IdleSwagger ==
    /\ kinSwaggerDoc = <<>>
    /\ kinSwaggerDoc0 = <<>>

Init == InitOrch /\ IdleSchema /\ IdleSwagger

Next ==
    \/ Detect
    \/ ConvertSwaggerToOpenAPI30
    \/ ConvertOpenAPI30To31
    \/ ConvertOpenAPI31To30
    \/ ConvertOpenAPI30ToSwagger
    \/ Return

Spec == Init /\ [][Next]_vars

(***************************************************************************)
(* Claims about convertDocument, checked under Spec.                       *)
(***************************************************************************)
\* The dialects in the order v0 < v1 < v2, and the dialect each recognised
\* marker stands for; -1 for every other marker.
ClaimDialect(marker) ==
    CASE marker = "2.0" -> 0
      [] marker \in {"3.0.0", "3.0.1", "3.0.2", "3.0.3", "3.0.4"} -> 1
      [] marker \in {"3.1.0", "3.1.1"} -> 2
      [] OTHER -> -1

\* The marker read from the two marker fields.
ClaimMarker == IF input.OpenAPI # "" THEN input.OpenAPI ELSE input.Swagger

Detected == ClaimDialect(ClaimMarker)
Recognised == input.parseOK /\ Detected \in {0, 1, 2}

\* The single-step conversion between two adjacent dialects.
ClaimStep(a, b) ==
    CASE a = 0 /\ b = 1 -> "convertSwaggerToOpenAPI30"
      [] a = 1 /\ b = 2 -> "convertOpenAPI30To31"
      [] a = 2 /\ b = 1 -> "convertOpenAPI31To30"
      [] a = 1 /\ b = 0 -> "convertOpenAPI30ToSwagger"
      [] OTHER -> "none"

Abs(x) == IF x < 0 THEN -x ELSE x
Toward(s, t) == IF s < t THEN 1 ELSE -1
AllStepsOk == \A i \in 1..Len(steps) : steps[i].ok
StepEnabled ==
    \/ ENABLED ConvertSwaggerToOpenAPI30
    \/ ENABLED ConvertOpenAPI30To31
    \/ ENABLED ConvertOpenAPI31To30
    \/ ENABLED ConvertOpenAPI30ToSwagger

\* C1: for a recognised source dialect s and a target t, the steps executed
\* are adjacent conversions, the i-th from s+d(i-1) to s+di with d pointing
\* from s to t; never more than |s-t| <= 2 of them; with no step failing the
\* loop goes on exactly while fewer than |s-t| steps were made, then returns
\* without error.
C1_StepsTowardTarget ==
    Recognised =>
        LET s == Detected
            t == outputVersion
            d == Toward(s, t)
        IN  /\ Len(steps) <= Abs(s - t)
            /\ Len(steps) <= 2
            /\ \A i \in 1..Len(steps) :
                  /\ steps[i].from = s + d * (i - 1)
                  /\ steps[i].to = s + d * i
                  /\ steps[i].name = ClaimStep(steps[i].from, steps[i].to)
            /\ (pc = "loop" /\ AllStepsOk) =>
                  /\ inputVersion = s + d * Len(steps)
                  /\ (Len(steps) < Abs(s - t)) = StepEnabled
                  /\ (Len(steps) = Abs(s - t)) = ENABLED Return
            /\ (pc = "done" /\ AllStepsOk) =>
                  /\ Len(steps) = Abs(s - t)
                  /\ retErr.isNil

\* a conversion from v2 down to v0 has returned after two successful steps
C1_Witness ==
    /\ pc = "done" /\ Recognised /\ Detected = 2 /\ outputVersion = 0
    /\ Len(steps) = 2 /\ AllStepsOk

\* C2: when the detected dialect equals the target, no step and no call of
\* a step is made, the local bytes stay the input, and the call returns the
\* input bytes with no error.
C2_IdentityAtTarget ==
    (Recognised /\ Detected = outputVersion) =>
        /\ steps = <<>>
        /\ log = <<>>
        /\ data = Bytes(ClaimMarker, input.format, <<>>)
        /\ pc = "loop" => (ENABLED Return /\ ~StepEnabled)
        /\ pc = "done" => (retData = Bytes(ClaimMarker, input.format, <<>>) /\ retErr.isNil)

\* a v1 document asked to become v1 has been returned
C2_Witness ==
    /\ pc = "done" /\ Recognised /\ Detected = 1 /\ outputVersion = 1
    /\ ~retData.isNil

\* C3: a failed step is the last step, nothing is called after the failing
\* call, and the call has returned nil bytes with a non-nil error.
C3_FailureAborts ==
    /\ \A i \in 1..Len(steps) :
          ~steps[i].ok =>
              /\ i = Len(steps)
              /\ pc = "done"
              /\ retData = NilData
              /\ ~retErr.isNil
    /\ \A j \in 1..Len(log) : ~log[j].ok => j = Len(log)

\* the second step failed in its final serialization, which handed back
\* bytes beside its error
C3_Witness ==
    /\ pc = "done" /\ Len(steps) = 2 /\ steps[1].ok /\ ~steps[2].ok
    /\ ~data.isNil /\ ~data.whole

\* The name a dialect has in the messages of the program.
DialectWord(v) == CASE v = 0 -> "Swagger" [] v = 1 -> "3.0" [] v = 2 -> "3.1"

\* C4: the error returned for a failed step wraps the library error and its
\* message names the source and the destination dialect of the step.
C4_StepErrorsNameTheStep ==
    (pc = "done" /\ steps # <<>> /\ ~steps[Len(steps)].ok) =>
        /\ retErr.wraps
        /\ DialectWord(steps[Len(steps)].from) \in Range(retErr.ctx)
        /\ DialectWord(steps[Len(steps)].to) \in Range(retErr.ctx)

\* C5: after detection of a parsed input, a recognised marker has given the
\* dialect of the claim's table and no error; any other marker has ended the
\* call with nil bytes and the unsupported-version error whose message holds
\* the marker, no step and no call made.
C5_DetectorByLiteralMarker ==
    (input.parseOK /\ pc # "start") =>
        IF Detected \in {0, 1, 2}
        THEN /\ (pc = "loop" /\ steps = <<>>) => inputVersion = Detected
             /\ steps = <<>> => retErr.isNil
             /\ "Unsuppoted" \notin Range(retErr.ctx)
        ELSE /\ pc = "done"
             /\ retData = NilData
             /\ ~retErr.isNil
             /\ retErr.ctx[1] = "Unsuppoted"
             /\ retErr.ctx[Len(retErr.ctx)] = ClaimMarker
             /\ steps = <<>>
             /\ log = <<>>

\* an unknown marker read from the swagger field has been rejected
C5_Witness ==
    /\ pc = "done" /\ input.parseOK
    /\ input.OpenAPI = "" /\ input.Swagger = "1.2"
    /\ ~retErr.isNil

\* The passes of the Downgrade Normalizer.
NormalizerOps ==
    {"fixSwaggerDocUploadFormats", "addDefaultErrorResponses.Definitions",
     "copyDescriptionToSummary", "deduplicateTags", "addDefaultErrorResponseToOperation"}

TimesRun(op) == Cardinality({i \in 1..Len(log) : log[i].op = op})

\* C6: a normalizer pass runs only inside the v1->v0 step and after that
\* step's FromV3 succeeded; each pass has run exactly once when a conversion
\* from v1 or v2 to v0 returned without error; none runs when the target is
\* v1 or v2 or the input is v0.
C6_NormalizerOnlyOnDowngradeToV0 ==
    /\ \A i \in 1..Len(log) :
          log[i].op \in NormalizerOps =>
              /\ steps[log[i].step].name = "convertOpenAPI30ToSwagger"
              /\ steps[log[i].step].from = 1 /\ steps[log[i].step].to = 0
              /\ \E j \in 1..(i - 1) :
                    /\ log[j].step = log[i].step
                    /\ log[j].op = "openapi2conv.FromV3"
                    /\ log[j].ok
    /\ \A op \in NormalizerOps : TimesRun(op) <= 1
    /\ (pc = "done" /\ retErr.isNil /\ Recognised /\ Detected \in {1, 2}
            /\ outputVersion = 0) =>
          \A op \in NormalizerOps : TimesRun(op) = 1
    /\ (Recognised /\ (outputVersion # 0 \/ Detected = 0)) =>
          \A op \in NormalizerOps : TimesRun(op) = 0

\* a v2 document has been converted to v0 without error
C6_Witness ==
    /\ pc = "done" /\ retErr.isNil /\ Recognised /\ Detected = 2 /\ outputVersion = 0
    /\ TimesRun("deduplicateTags") = 1

(***************************************************************************)
(* Schema fragments.  The heap of *base.Schema is a sequence: a fragment   *)
(* is known by its position, 0 is the nil pointer, and a fragment created  *)
(* during a conversion is appended.  A pointer field is the empty sequence *)
(* (nil) or a one-element sequence; a *bool is "nil", "true" or "false".   *)
(* Properties is the ordered map as the sequence of its entries, oldest    *)
(* first.  hasLow: whether GoLow() gives a low-level schema, which holds   *)
(* ContentMediaType and ContentEncoding.                                   *)
(***************************************************************************)
EmptySchema ==
    [Type |-> <<>>, Nullable |-> "nil",
     Minimum |-> <<>>, ExclusiveMinimum |-> <<>>,
     Maximum |-> <<>>, ExclusiveMaximum |-> <<>>,
     Example |-> <<>>, Examples |-> <<>>,
     Format |-> "", hasLow |-> TRUE, ContentMediaType |-> "", ContentEncoding |-> "",
     Required |-> <<>>, ReadOnly |-> "nil",
     Properties |-> <<>>, Items |-> 0, AllOf |-> <<>>, OneOf |-> <<>>, AnyOf |-> <<>>]

\* base.Schema{Type: []string{value}} with Nullable as given, main.go:230-234
NewSchema(value, nullable) ==
    [EmptySchema EXCEPT !.Type = <<value>>, !.Nullable = nullable, !.hasLow = FALSE]

\* make30RequiredAndReadonlyPropertiesOnlyReadonly keeping only the names
\* of properties that are not read-only
make30RequiredAndReadonlyPropertiesOnlyWritable(st, n) ==
    LET schema == st[n]
        IsWritable(propName) ==
            \E i \in 1..Len(schema.Properties) :
                /\ schema.Properties[i].name = propName
                /\ st[schema.Properties[i].schema].ReadOnly # "true"
    IN  IF Len(schema.Properties) > 0 /\ Len(schema.Required) > 0
        THEN [st EXCEPT ![n].Required =
                 SelectSeq(schema.Required, LAMBDA propName : IsWritable(propName))]
        ELSE st

\* main.go:156-178
make30RequiredAndReadonlyPropertiesOnlyReadonly(st, n) ==
    LET schema == st[n]
        IsReadonly(propName) ==
            \E i \in 1..Len(schema.Properties) :
                /\ schema.Properties[i].name = propName
                /\ st[schema.Properties[i].schema].ReadOnly = "true"
    IN  IF Len(schema.Properties) > 0 /\ Len(schema.Required) > 0
        THEN [st EXCEPT ![n].Required =
                 SelectSeq(schema.Required, LAMBDA propName : ~IsReadonly(propName))]
        ELSE st

\* main.go:186-195
convert30NullablesTo31TypeArrays(schema) ==
    IF schema.Nullable # "nil"
    THEN [schema EXCEPT
            !.Type = IF schema.Nullable = "true" THEN Append(@, "null") ELSE @,
            !.Nullable = "nil"]
    ELSE schema

\* main.go:210-216: the last entry of the array that is not "null", or ""
NonNullType(type) ==
    LET idx == {i \in 1..Len(type) : type[i] # "null"}
    IN  IF idx = {} THEN "" ELSE type[CHOOSE i \in idx : \A j \in idx : j <= i]

\* convert31TypeArraysTo30 without the assignment of main.go:220
convert31TypeArraysTo30KeepFirst(st, n) ==
    LET schema   == st[n]
        nullable == \E i \in 1..Len(schema.Type) : schema.Type[i] = "null"
        values   == SelectSeq(schema.Type, LAMBDA value : value # "null")
        base     == Len(st)
    IN  IF nullable /\ Len(schema.Type) = 2
        THEN [st EXCEPT ![n].Type = <<schema.Type[1]>>,
                        ![n].Nullable = "true"]
        ELSE IF Len(schema.Type) >= 2
        THEN [st EXCEPT ![n].OneOf = [i \in 1..Len(values) |-> base + i],
                        ![n].Type = <<>>]
             \o [i \in 1..Len(values) |->
                    NewSchema(values[i], IF nullable THEN "true" ELSE "nil")]
        ELSE st

\* convert31TypeArraysTo30 without the test of main.go:229
convert31TypeArraysTo30NullBranch(st, n) ==
    LET schema   == st[n]
        nullable == \E i \in 1..Len(schema.Type) : schema.Type[i] = "null"
        base     == Len(st)
    IN  IF nullable /\ Len(schema.Type) = 2
        THEN [st EXCEPT ![n].Type = <<NonNullType(schema.Type)>>,
                        ![n].Nullable = "true"]
        ELSE IF Len(schema.Type) >= 2
        THEN [st EXCEPT ![n].OneOf = [i \in 1..Len(schema.Type) |-> base + i],
                        ![n].Type = <<>>]
             \o [i \in 1..Len(schema.Type) |->
                    NewSchema(schema.Type[i], IF nullable THEN "true" ELSE "nil")]
        ELSE st

\* main.go:206-243
convert31TypeArraysTo30(st, n) ==
    LET schema   == st[n]
        nullable == \E i \in 1..Len(schema.Type) : schema.Type[i] = "null"
        values   == SelectSeq(schema.Type, LAMBDA value : value # "null")
        base     == Len(st)
    IN  IF nullable /\ Len(schema.Type) = 2
        THEN [st EXCEPT ![n].Type = <<NonNullType(schema.Type)>>,
                        ![n].Nullable = "true"]
        ELSE IF Len(schema.Type) >= 2
        THEN [st EXCEPT ![n].OneOf = [i \in 1..Len(values) |-> base + i],
                        ![n].Type = <<>>]
             \o [i \in 1..Len(values) |->
                    NewSchema(values[i], IF nullable THEN "true" ELSE "nil")]
        ELSE st

\* base.DynamicValue[bool, float64]: N = 0 selects A, N = 1 selects B
DynamicValue(N, A, B) == [N |-> N, A |-> A, B |-> B]

\* main.go:258-278
convert30ExclusiveBoundTo31(bound, exclusiveBound) ==
    IF exclusiveBound # <<>> /\ exclusiveBound[1].N = 0
    THEN IF exclusiveBound[1].A
         THEN [bound |-> <<>>,
               exclusiveBound |->
                   IF bound # <<>>
                   THEN <<DynamicValue(1, exclusiveBound[1].A, bound[1])>>
                   ELSE exclusiveBound]
         ELSE [bound |-> bound, exclusiveBound |-> <<>>]
    ELSE [bound |-> bound, exclusiveBound |-> exclusiveBound]

\* main.go:257-282
convert30MinMaxTo31(schema) ==
    LET lo == convert30ExclusiveBoundTo31(schema.Minimum, schema.ExclusiveMinimum)
        hi == convert30ExclusiveBoundTo31(schema.Maximum, schema.ExclusiveMaximum)
    IN  [schema EXCEPT !.Minimum = lo.bound, !.ExclusiveMinimum = lo.exclusiveBound,
                       !.Maximum = hi.bound, !.ExclusiveMaximum = hi.exclusiveBound]

\* main.go:295-306
convert31ExclusiveBoundTo30(bound, exclusiveBound) ==
    IF exclusiveBound # <<>> /\ exclusiveBound[1].N = 1
    THEN [bound |-> <<exclusiveBound[1].B>>,
          exclusiveBound |-> <<DynamicValue(0, TRUE, exclusiveBound[1].B)>>]
    ELSE [bound |-> bound, exclusiveBound |-> exclusiveBound]

\* main.go:294-310
convert31MinMaxTo30(schema) ==
    LET lo == convert31ExclusiveBoundTo30(schema.Minimum, schema.ExclusiveMinimum)
        hi == convert31ExclusiveBoundTo30(schema.Maximum, schema.ExclusiveMaximum)
    IN  [schema EXCEPT !.Minimum = lo.bound, !.ExclusiveMinimum = lo.exclusiveBound,
                       !.Maximum = hi.bound, !.ExclusiveMaximum = hi.exclusiveBound]

\* main.go:317-322
convert30ExampleTo31Examples(schema) ==
    IF schema.Example # <<>>
    THEN [schema EXCEPT !.Examples = <<schema.Example[1]>>, !.Example = <<>>]
    ELSE schema

\* convert31ExamplesTo30Example taking the last entry instead of the first
convert31ExamplesTo30ExampleLast(schema) ==
    IF Len(schema.Examples) >= 1
    THEN [schema EXCEPT !.Example = <<schema.Examples[Len(schema.Examples)]>>,
                        !.Examples = <<>>]
    ELSE schema

\* main.go:329-334
convert31ExamplesTo30Example(schema) ==
    IF Len(schema.Examples) >= 1
    THEN [schema EXCEPT !.Example = <<schema.Examples[1]>>, !.Examples = <<>>]
    ELSE schema

\* main.go:348-372
convert30FormatsTo31ContentFields(schema) ==
    IF Len(schema.Type) = 1 /\ schema.Type[1] = "string" /\ schema.Format # ""
    THEN [schema EXCEPT
            !.ContentMediaType =
                IF schema.Format \in {"binary", "byte"} /\ schema.hasLow
                THEN "base64" ELSE @,
            !.ContentEncoding =
                IF schema.Format = "base64" /\ schema.hasLow THEN "base64" ELSE @,
            !.Format = ""]
    ELSE schema

\* convert31ContentFieldsTo30Formats with the two tests of main.go:390-404
\* in the opposite order
convert31ContentFieldsTo30FormatsEncodingFirst(schema) ==
    IF Len(schema.Type) = 1 /\ schema.Type[1] = "string" /\ schema.hasLow
    THEN [schema EXCEPT
            !.Format =
                IF schema.ContentMediaType = "application/octet-stream" THEN "binary"
                ELSE IF schema.ContentEncoding = "base64" THEN "base64"
                ELSE @,
            !.ContentMediaType = "",
            !.ContentEncoding = ""]
    ELSE schema

\* main.go:385-407
convert31ContentFieldsTo30Formats(schema) ==
    IF Len(schema.Type) = 1 /\ schema.Type[1] = "string" /\ schema.hasLow
    THEN [schema EXCEPT
            !.Format =
                IF schema.ContentEncoding = "base64" THEN "base64"
                ELSE IF schema.ContentMediaType = "application/octet-stream" THEN "binary"
                ELSE @,
            !.ContentMediaType = "",
            !.ContentEncoding = ""]
    ELSE schema

(***************************************************************************)
(* The callbacks the three steps hand to updateAllSchema.                  *)
(***************************************************************************)
Callbacks == {"convertOpenAPI30ToSwagger", "convertOpenAPI30To31", "convertOpenAPI31To30"}

\* main.go:921-925, 999-1008, 1061-1070: callback(schema)
Callback(cb, st, n) ==
    CASE cb = "convertOpenAPI30ToSwagger" ->
            make30RequiredAndReadonlyPropertiesOnlyReadonly(st, n)
      [] cb = "convertOpenAPI30To31" ->
            [st EXCEPT ![n] =
                convert30FormatsTo31ContentFields(
                    convert30ExampleTo31Examples(
                        convert30MinMaxTo31(
                            convert30NullablesTo31TypeArrays(@))))]
      [] cb = "convertOpenAPI31To30" ->
            LET st1 == convert31TypeArraysTo30(st, n)
            IN  [st1 EXCEPT ![n] =
                    convert31ContentFieldsTo30Formats(
                        convert31ExamplesTo30Example(
                            convert31MinMaxTo30(@)))]

(***************************************************************************)
(* updateSchemaAndReferencedSchema, main.go:419-457.                       *)
(***************************************************************************)
PropertyValues(schema) == [i \in 1..Len(schema.Properties) |-> schema.Properties[i].schema]

\* the fragment itself before its children
CallOrderSelfFirst(st, n) ==
    LET schema == st[n]
    IN  <<n>>
        \o PropertyValues(schema)
        \o (IF schema.Items # 0 THEN <<schema.Items>> ELSE <<>>)
        \o schema.AllOf
        \o schema.OneOf
        \o schema.AnyOf

\* main.go:428-456: the fragments callback is called on, in the order of the
\* calls, for a non-nil schema
CallOrder(st, n) ==
    LET schema == st[n]
    IN  PropertyValues(schema)
        \o (IF schema.Items # 0 THEN <<schema.Items>> ELSE <<>>)
        \o schema.AllOf
        \o schema.OneOf
        \o schema.AnyOf
        \o <<n>>

RECURSIVE CallEach(_, _, _)
\* callback on each fragment of order, each call on the heap the calls before
\* it left
CallEach(cb, st, order) ==
    IF order = <<>> THEN st
    ELSE CallEach(cb, Callback(cb, st, Head(order)), Tail(order))

\* main.go:419-457: the heap afterwards and the fragments callback was called on
updateSchemaAndReferencedSchema(st, n, cb) ==
    IF n = 0
    THEN [heap |-> st, called |-> <<>>]
    ELSE [heap |-> CallEach(cb, st, CallOrder(st, n)), called |-> CallOrder(st, n)]

(***************************************************************************)
(* updateAllSchema, main.go:468-509.  The document is the places its       *)
(* fragments are attached at: the entries of components.schemas, the       *)
(* schemas of the entries of components.parameters, and for every          *)
(* operation of every path item, in the order of the two loops, the        *)
(* schemas of its request body content entries, those of the content       *)
(* entries of its responses by status code, and those of its parameters.   *)
(***************************************************************************)
Operation(requestBody, responses, parameters) ==
    [RequestBodyContent |-> requestBody, ResponsesCodesContent |-> responses,
     Parameters |-> parameters]

RECURSIVE Flatten(_)
Flatten(ss) == IF ss = <<>> THEN <<>> ELSE Head(ss) \o Flatten(Tail(ss))

\* updateAllSchema without the loop over the responses
RootsNoResponses(d) ==
    d.ComponentsSchemas
    \o d.ComponentsParameters
    \o Flatten([i \in 1..Len(d.Operations) |-> d.Operations[i].RequestBodyContent])

\* main.go:472-508: the schemas updateSchemaAndReferencedSchema is called on,
\* in the order of the calls
Roots(d) ==
    d.ComponentsSchemas
    \o d.ComponentsParameters
    \o Flatten([i \in 1..Len(d.Operations) |->
                  d.Operations[i].RequestBodyContent
                  \o d.Operations[i].ResponsesCodesContent])

RECURSIVE UpdateEach(_, _, _, _)
UpdateEach(cb, st, roots, called) ==
    IF roots = <<>> THEN [heap |-> st, called |-> called]
    ELSE LET r == updateSchemaAndReferencedSchema(st, Head(roots), cb)
         IN  UpdateEach(cb, r.heap, Tail(roots), called \o r.called)

\* main.go:468-509
updateAllSchema(st, d, cb) == UpdateEach(cb, st, Roots(d), <<>>)

(***************************************************************************)
(* SpecVisit: one call of updateSchemaAndReferencedSchema or of            *)
(* updateAllSchema on a document of at most MaxNodes fragments, each       *)
(* attached at one place: to the document, or to an older fragment as a    *)
(* property value, as items, or as a member of allOf, oneOf or anyOf.      *)
(***************************************************************************)
MaxNodes == 3

\* a place is a pair: the kind of owner and the field of the owner
ChildKinds == {<<"schema", field>> : field \in {"Properties", "Items", "AllOf", "OneOf", "AnyOf"}}
OperationNames == <<"get", "post">>
VisitedPlaces == {"requestBody", "responses"}
OperationPlaces == VisitedPlaces \cup {"parameters"}
DocPlaces ==
    {<<"components", "schemas">>, <<"components", "parameters">>}
    \cup {<<OperationNames[i], place>> : i \in 1..Len(OperationNames), place \in OperationPlaces}

\* where fragment k is attached: parent = 0 is the document
Links ==
    {l \in [1..MaxNodes -> [parent : 0..(MaxNodes - 1), at : ChildKinds \cup DocPlaces]] :
        /\ \A k \in 1..MaxNodes :
              /\ l[k].parent < k
              /\ (l[k].parent = 0) = (l[k].at \in DocPlaces)
        /\ \A j, k \in 1..MaxNodes :
              (j # k /\ l[j].at = <<"schema", "Items">> /\ l[k].at = <<"schema", "Items">>)
                  => l[j].parent # l[k].parent}

\* the fragments attached to parent at the given place, oldest first
Attached(l, parent, at) ==
    SelectSeq([k \in 1..MaxNodes |-> k],
              LAMBDA k : l[k].parent = parent /\ l[k].at = at)

\* the types the fragments of a visited document are given
VisitTypes == {<<"string">>, <<"string", "integer">>}

SchemaAt(l, k, type) ==
    LET props == Attached(l, k, <<"schema", "Properties">>)
        items == Attached(l, k, <<"schema", "Items">>)
    IN  [EmptySchema EXCEPT
            !.Type = type,
            !.Properties = [i \in 1..Len(props) |->
                               [name |-> ToString(props[i]), schema |-> props[i]]],
            !.Items = IF items = <<>> THEN 0 ELSE items[1],
            !.AllOf = Attached(l, k, <<"schema", "AllOf">>),
            !.OneOf = Attached(l, k, <<"schema", "OneOf">>),
            !.AnyOf = Attached(l, k, <<"schema", "AnyOf">>)]

DocumentOf(l) ==
    [ComponentsSchemas |-> Attached(l, 0, <<"components", "schemas">>),
     ComponentsParameters |-> Attached(l, 0, <<"components", "parameters">>),
     Operations |-> [i \in 1..Len(OperationNames) |->
                        Operation(Attached(l, 0, <<OperationNames[i], "requestBody">>),
                                  Attached(l, 0, <<OperationNames[i], "responses">>),
                                  Attached(l, 0, <<OperationNames[i], "parameters">>))]]

EmptyDocument ==
    [ComponentsSchemas |-> <<>>, ComponentsParameters |-> <<>>, Operations |-> <<>>]

InitVisit ==
    /\ IdleOrch
    /\ IdleSwagger
    /\ \E l \in Links, type \in VisitTypes :
          /\ schemas = [k \in 1..MaxNodes |-> SchemaAt(l, k, type)]
          /\ doc = DocumentOf(l)
    /\ schemas0 = schemas
    /\ calls = <<>>
    /\ started = <<>>
    /\ hist = <<>>

\* updateSchemaAndReferencedSchema(schema, callback) on nil or on a fragment
VisitSchema ==
    /\ hist = <<>>
    /\ \E n \in 0..Len(schemas), cb \in Callbacks :
          LET r == updateSchemaAndReferencedSchema(schemas, n, cb)
          IN  /\ schemas' = r.heap
              /\ calls' = r.called
              /\ started' = <<n>>
              /\ hist' = <<[op |-> "updateSchemaAndReferencedSchema", cb |-> cb]>>
    /\ UNCHANGED <<schemas0, doc>>
    /\ UNCHANGED orchVars
    /\ UNCHANGED swaggerVars

\* updateAllSchema(model, callback)
UpdateAllSchema ==
    /\ hist = <<>>
    /\ \E cb \in Callbacks :
          LET r == updateAllSchema(schemas, doc, cb)
          IN  /\ schemas' = r.heap
              /\ calls' = r.called
              /\ started' = Roots(doc)
              /\ hist' = <<[op |-> "updateAllSchema", cb |-> cb]>>
    /\ UNCHANGED <<schemas0, doc>>
    /\ UNCHANGED orchVars
    /\ UNCHANGED swaggerVars

NextVisit == VisitSchema \/ UpdateAllSchema

SpecVisit == InitVisit /\ [][NextVisit]_vars

(***************************************************************************)
(* SpecRule: the per-fragment rules applied one after another, at most     *)
(* MaxRuleOps times, to one fragment whose type array has at most MaxTypes *)
(* entries.                                                                *)
(***************************************************************************)
MaxTypes == 3
MaxRuleOps == 2

TypeNames == {"string", "integer", "null"}
TypeArrays == UNION {[1..n -> TypeNames] : n \in 0..MaxTypes}
BoolPointers == {"nil", "true", "false"}

InitRule ==
    /\ IdleOrch
    /\ IdleSwagger
    /\ \E type \in TypeArrays, nullable \in BoolPointers :
          schemas = <<[EmptySchema EXCEPT !.Type = type, !.Nullable = nullable]>>
    /\ schemas0 = schemas
    /\ doc = EmptyDocument
    /\ calls = <<>>
    /\ started = <<>>
    /\ hist = <<>>

Convert30NullablesTo31TypeArrays ==
    /\ Len(hist) < MaxRuleOps
    /\ schemas' = [schemas EXCEPT ![1] = convert30NullablesTo31TypeArrays(@)]
    /\ hist' = Append(hist, "convert30NullablesTo31TypeArrays")
    /\ UNCHANGED <<schemas0, doc, calls, started>>
    /\ UNCHANGED orchVars
    /\ UNCHANGED swaggerVars

Convert31TypeArraysTo30 ==
    /\ Len(hist) < MaxRuleOps
    /\ schemas' = convert31TypeArraysTo30(schemas, 1)
    /\ hist' = Append(hist, "convert31TypeArraysTo30")
    /\ UNCHANGED <<schemas0, doc, calls, started>>
    /\ UNCHANGED orchVars
    /\ UNCHANGED swaggerVars

NextRule == Convert30NullablesTo31TypeArrays \/ Convert31TypeArraysTo30

SpecRule == InitRule /\ [][NextRule]_vars

(***************************************************************************)
(* Claims about the visitor, checked under SpecVisit.                      *)
(***************************************************************************)
Visited(op) == hist # <<>> /\ hist[1].op = op

\* The children of fragment n as the Document Model Builder attached them.
ChildrenOf(n) ==
    LET f == schemas0[n]
    IN  {f.Properties[i].schema : i \in 1..Len(f.Properties)}
        \cup (IF f.Items # 0 THEN {f.Items} ELSE {})
        \cup Range(f.AllOf) \cup Range(f.OneOf) \cup Range(f.AnyOf)

RECURSIVE ReachableFrom(_)
\* n and every fragment below it, at any depth
ReachableFrom(n) == {n} \cup UNION {ReachableFrom(c) : c \in ChildrenOf(n)}

\* C7: after the visitor ran on a non-nil fragment, the rule has been
\* applied to every fragment reachable from it at any depth.
C7_VisitorReachesEveryDepth ==
    (Visited("updateSchemaAndReferencedSchema") /\ started[1] # 0) =>
        ReachableFrom(started[1]) \subseteq Range(calls)

\* The place of fragment c in the visit of fragment n: 1 properties value,
\* 2 items, 3 allOf member, 4 oneOf member, 5 anyOf member, 6 n itself.
RankIn(n, c) ==
    LET f == schemas0[n]
    IN  CASE c = n -> 6
          [] \E i \in 1..Len(f.Properties) : f.Properties[i].schema = c -> 1
          [] f.Items = c -> 2
          [] c \in Range(f.AllOf) -> 3
          [] c \in Range(f.OneOf) -> 4
          [] c \in Range(f.AnyOf) -> 5
          [] OTHER -> 0

\* The position of c in the list of n it is a member of.
IndexIn(n, c) ==
    LET f == schemas0[n]
        Pos(list) == CHOOSE i \in 1..Len(list) : list[i] = c
    IN  CASE RankIn(n, c) = 1 -> CHOOSE i \in 1..Len(f.Properties) : f.Properties[i].schema = c
          [] RankIn(n, c) = 3 -> Pos(f.AllOf)
          [] RankIn(n, c) = 4 -> Pos(f.OneOf)
          [] RankIn(n, c) = 5 -> Pos(f.AnyOf)
          [] OTHER -> 1

\* C8: the visitor on a non-nil fragment n calls the rule once on each child
\* of n and once on n, properties values first, then items, allOf, oneOf and
\* anyOf members, each list in its order, and n last; a fragment the rule
\* created in the visit is not called; on nil it calls nothing and changes
\* nothing.
C8_VisitOrderSelfLast ==
    Visited("updateSchemaAndReferencedSchema") =>
        LET n == started[1]
        IN  IF n = 0
            THEN calls = <<>> /\ schemas = schemas0
            ELSE /\ Range(calls) = ChildrenOf(n) \cup {n}
                 /\ Len(calls) = Cardinality(ChildrenOf(n)) + 1
                 /\ calls[Len(calls)] = n
                 /\ \A i, j \in 1..Len(calls) :
                       i < j =>
                          \/ RankIn(n, calls[i]) < RankIn(n, calls[j])
                          \/ /\ RankIn(n, calls[i]) = RankIn(n, calls[j])
                             /\ IndexIn(n, calls[i]) < IndexIn(n, calls[j])
                 /\ \A c \in Range(calls) : c <= Len(schemas0)
                 /\ \A b \in Range(schemas[n].OneOf) :
                       b > Len(schemas0) => b \notin Range(calls)

\* the type-union rule has run on a fragment that has a properties value and
\* a composite member, and has created oneOf branches on it
C8_Witness ==
    /\ Visited("updateSchemaAndReferencedSchema")
    /\ hist[1].cb = "convertOpenAPI31To30"
    /\ started[1] # 0
    /\ Len(calls) >= 3
    /\ schemas0[started[1]].Properties # <<>>
    /\ \E b \in Range(schemas[started[1]].OneOf) : b > Len(schemas0)

\* The fragments attached to the document at the four kinds of root.
ClaimRoots ==
    Range(doc.ComponentsSchemas)
    \cup Range(doc.ComponentsParameters)
    \cup UNION {Range(doc.Operations[i].RequestBodyContent) \cup
                Range(doc.Operations[i].ResponsesCodesContent) :
                    i \in 1..Len(doc.Operations)}

\* The fragments attached to the document elsewhere, with all below them.
ClaimElsewhere ==
    UNION {ReachableFrom(r) :
             r \in UNION {Range(doc.Operations[i].Parameters) : i \in 1..Len(doc.Operations)}}

\* C9: updateAllSchema starts the visitor once from each fragment attached
\* at components.schemas, components.parameters, a request body content
\* entry or a response content entry, from no other fragment, and the rule
\* is applied to no fragment attached only elsewhere.
C9_UpdateAllRoots ==
    Visited("updateAllSchema") =>
        /\ Range(started) = ClaimRoots
        /\ Len(started) = Cardinality(ClaimRoots)
        /\ ClaimRoots \subseteq Range(calls)
        /\ Range(calls) \cap ClaimElsewhere = {}

\* a document with a response schema, an operation parameter schema and a
\* components schema has been updated
C9_Witness ==
    /\ Visited("updateAllSchema")
    /\ doc.Operations[2].ResponsesCodesContent # <<>>
    /\ doc.Operations[1].Parameters # <<>>
    /\ doc.ComponentsSchemas # <<>>
    /\ Len(started) = 2

(***************************************************************************)
(* Claims about the rules, checked under SpecRule.                         *)
(***************************************************************************)
Primitive(t) == t \in TypeNames \ {"null"}

\* a v2 nullable scalar: two entries, one "null", one primitive, no flag
NullableScalar31(f) ==
    /\ Len(f.Type) = 2
    /\ f.Nullable = "nil"
    /\ \/ f.Type[1] = "null" /\ Primitive(f.Type[2])
       \/ f.Type[2] = "null" /\ Primitive(f.Type[1])

\* a v1 nullable scalar: {type: T, nullable: true}
NullableScalar30(f) ==
    /\ Len(f.Type) = 1
    /\ Primitive(f.Type[1])
    /\ f.Nullable = "true"

TheType(f) == IF f.Type[1] = "null" THEN f.Type[2] ELSE f.Type[1]

DownThenUp == hist = <<"convert31TypeArraysTo30", "convert30NullablesTo31TypeArrays">>
UpThenDown == hist = <<"convert30NullablesTo31TypeArrays", "convert31TypeArraysTo30">>

\* the v1 half of C10: upgrade gives [T, "null"] without flag, the following
\* downgrade gives back {type: T, nullable: true}
UpgradeThenDowngrade30 ==
    NullableScalar30(schemas0[1]) =>
        /\ hist = <<"convert30NullablesTo31TypeArrays">> =>
              /\ schemas[1].Type = <<schemas0[1].Type[1], "null">>
              /\ schemas[1].Nullable = "nil"
        /\ UpThenDown => schemas = schemas0

\* C10 as claimed: downgrade then upgrade of a v2 nullable scalar, "null" in
\* either position, gives the original type array in the original order
\* with no nullable flag; upgrade then downgrade of {type: T, nullable:
\* true} gives [T, "null"] and then the original.
C10_RoundTripExact ==
    /\ (DownThenUp /\ NullableScalar31(schemas0[1])) =>
          /\ schemas[1].Type = schemas0[1].Type
          /\ schemas[1].Nullable = "nil"
    /\ UpgradeThenDowngrade30

\* C10 as amended: downgrade of a v2 nullable scalar gives {type: T,
\* nullable: true} and the following upgrade gives [T, "null"] with no
\* nullable flag, which is the original array when "null" was its second
\* entry and the original with its entries exchanged when "null" was first;
\* all else of the fragment is as it was; the v1 half as claimed.
C10_RoundTripNullLast ==
    /\ NullableScalar31(schemas0[1]) =>
          /\ hist = <<"convert31TypeArraysTo30">> =>
                schemas = <<[schemas0[1] EXCEPT !.Type = <<TheType(schemas0[1])>>,
                                                !.Nullable = "true"]>>
          /\ DownThenUp =>
                /\ schemas = <<[schemas0[1] EXCEPT !.Type = <<TheType(schemas0[1]), "null">>]>>
                /\ (schemas0[1].Type[2] = "null") => schemas = schemas0
                /\ (schemas0[1].Type[1] = "null") =>
                      schemas[1].Type = <<schemas0[1].Type[2], schemas0[1].Type[1]>>
    /\ UpgradeThenDowngrade30

\* ["null", "string"] has been downgraded and upgraded again
C10_Witness ==
    /\ DownThenUp
    /\ schemas0[1].Type = <<"null", "string">>
    /\ schemas0[1].Nullable = "nil"
    /\ schemas[1].Type = <<"string", "null">>

(***************************************************************************)
(* Claims about the nullability rules, checked under SpecRule.             *)
(***************************************************************************)
NonNullEntries(type) == SelectSeq(type, LAMBDA value : value # "null")

HasNull(type) == \E i \in 1..Len(type) : type[i] = "null"

\* C11: whenever convert31TypeArraysTo30 is applied to a fragment whose type
\* array holds N >= 2 entries other than "null", the type array is cleared
\* and oneOf gets exactly N branches, the i-th one typed with the i-th
\* non-null entry alone; every branch has nullable = true exactly when the
\* array held "null"; no branch is typed "null".
C11_UnionBecomesOneOf ==
    [][(/\ hist' = Append(hist, "convert31TypeArraysTo30")
        /\ Len(NonNullEntries(schemas[1].Type)) >= 2)
       => LET entries  == NonNullEntries(schemas[1].Type)
              nullable == HasNull(schemas[1].Type)
              branches == schemas'[1].OneOf
          IN  /\ schemas'[1].Type = <<>>
              /\ Len(branches) = Len(entries)
              /\ \A i \in 1..Len(branches) :
                    /\ branches[i] \in 1..Len(schemas')
                    /\ schemas'[branches[i]].Type = <<entries[i]>>
                    /\ entries[i] # "null"
                    /\ schemas'[branches[i]].Nullable = (IF nullable THEN "true" ELSE "nil")
              /\ \A i, j \in 1..Len(branches) : i # j => branches[i] # branches[j]]_vars

C11_Witness ==
    /\ hist = <<"convert31TypeArraysTo30">>
    /\ schemas0[1].Type = <<"string", "null", "integer">>
    /\ schemas[1].Type = <<>>
    /\ Len(schemas[1].OneOf) = 2
    /\ schemas[schemas[1].OneOf[1]].Type = <<"string">>
    /\ schemas[schemas[1].OneOf[2]].Type = <<"integer">>
    /\ schemas[schemas[1].OneOf[1]].Nullable = "true"
    /\ schemas[schemas[1].OneOf[2]].Nullable = "true"

\* C20: right after convert30NullablesTo31TypeArrays the fragment has no
\* nullable flag, and right after convert31TypeArraysTo30 its type array has
\* no "null" entry and no empty type name.
C20_DialectPurity ==
    hist # <<>> =>
        /\ (hist[Len(hist)] = "convert30NullablesTo31TypeArrays"
                => schemas[1].Nullable = "nil")
        /\ (hist[Len(hist)] = "convert31TypeArraysTo30"
                => \A i \in 1..Len(schemas[1].Type) :
                       schemas[1].Type[i] \notin {"null", ""})

(***************************************************************************)
(* SpecBounds: convert30MinMaxTo31 and convert31MinMaxTo30 applied one     *)
(* after another, at most MaxRuleOps times, to one fragment whose minimum, *)
(* maximum and exclusivity indicators take every form of both dialects,    *)
(* with values up to MaxBound.                                             *)
(***************************************************************************)
MaxBound == 2

BoundValues == 0..MaxBound

\* *float64: nil or a value
BoundPointers == {<<>>} \cup {<<v>> : v \in BoundValues}

\* *base.DynamicValue[bool, float64]: nil, the boolean of 3.0 or the number of 3.1
ExclusiveBounds ==
    {<<>>} \cup {<<DynamicValue(0, a, 0)>> : a \in BOOLEAN}
           \cup {<<DynamicValue(1, FALSE, v)>> : v \in BoundValues}

InitBounds ==
    /\ IdleOrch
    /\ IdleSwagger
    /\ \E minimum \in BoundPointers, exclusiveMinimum \in ExclusiveBounds,
          maximum \in BoundPointers, exclusiveMaximum \in ExclusiveBounds :
          schemas = <<[EmptySchema EXCEPT !.Type = <<"integer">>,
                                          !.Minimum = minimum,
                                          !.ExclusiveMinimum = exclusiveMinimum,
                                          !.Maximum = maximum,
                                          !.ExclusiveMaximum = exclusiveMaximum]>>
    /\ schemas0 = schemas
    /\ doc = EmptyDocument
    /\ calls = <<>>
    /\ started = <<>>
    /\ hist = <<>>

Convert30MinMaxTo31 ==
    /\ Len(hist) < MaxRuleOps
    /\ schemas' = [schemas EXCEPT ![1] = convert30MinMaxTo31(@)]
    /\ hist' = Append(hist, "convert30MinMaxTo31")
    /\ UNCHANGED <<schemas0, doc, calls, started>>
    /\ UNCHANGED orchVars
    /\ UNCHANGED swaggerVars

Convert31MinMaxTo30 ==
    /\ Len(hist) < MaxRuleOps
    /\ schemas' = [schemas EXCEPT ![1] = convert31MinMaxTo30(@)]
    /\ hist' = Append(hist, "convert31MinMaxTo30")
    /\ UNCHANGED <<schemas0, doc, calls, started>>
    /\ UNCHANGED orchVars
    /\ UNCHANGED swaggerVars

NextBounds == Convert30MinMaxTo31 \/ Convert31MinMaxTo30

SpecBounds == InitBounds /\ [][NextBounds]_vars

(***************************************************************************)
(* Claims about the numeric bounds, checked under SpecBounds.              *)
(***************************************************************************)
NoBound == [present |-> FALSE, value |-> 0, exclusive |-> FALSE]

\* What a bound and its indicator mean in 3.0: the bound, exclusive when the
\* indicator is the boolean true; an indicator without a bound means nothing.
Effective30(bound, exclusiveBound) ==
    IF bound = <<>> THEN NoBound
    ELSE [present |-> TRUE, value |-> bound[1],
          exclusive |-> (exclusiveBound # <<>> /\ exclusiveBound[1].N = 0
                         /\ exclusiveBound[1].A)]

\* What a bound and its numeric indicator mean in 3.1: two independent
\* limits, of which the stronger one is in effect.  tighter(v, w): the
\* inclusive limit v excludes more than the exclusive limit w.
Effective31(bound, exclusiveBound, tighter(_, _)) ==
    LET numeric == exclusiveBound # <<>> /\ exclusiveBound[1].N = 1
    IN  IF numeric /\ (bound = <<>> \/ ~tighter(bound[1], exclusiveBound[1].B))
        THEN [present |-> TRUE, value |-> exclusiveBound[1].B, exclusive |-> TRUE]
        ELSE IF bound # <<>>
        THEN [present |-> TRUE, value |-> bound[1], exclusive |-> FALSE]
        ELSE NoBound

Above(v, w) == v > w
Below(v, w) == v < w

Lower30(schema) == Effective30(schema.Minimum, schema.ExclusiveMinimum)
Upper30(schema) == Effective30(schema.Maximum, schema.ExclusiveMaximum)
Lower31(schema) == Effective31(schema.Minimum, schema.ExclusiveMinimum, Above)
Upper31(schema) == Effective31(schema.Maximum, schema.ExclusiveMaximum, Below)

\* a bound state of 3.0: the indicators are absent or boolean
BoundState30(schema) ==
    /\ schema.ExclusiveMinimum = <<>> \/ schema.ExclusiveMinimum[1].N = 0
    /\ schema.ExclusiveMaximum = <<>> \/ schema.ExclusiveMaximum[1].N = 0

\* a bound state of 3.1: the indicators are absent or numeric
BoundState31(schema) ==
    /\ schema.ExclusiveMinimum = <<>> \/ schema.ExclusiveMinimum[1].N = 1
    /\ schema.ExclusiveMaximum = <<>> \/ schema.ExclusiveMaximum[1].N = 1

\* C12: for minimum and maximum alike, a 3.1 bound state taken through
\* convert31MinMaxTo30 and then convert30MinMaxTo31 has the effective bound
\* and the inclusive/exclusive meaning it had, and a 3.0 bound state taken
\* through convert30MinMaxTo31 and then convert31MinMaxTo30 has the
\* effective bound and the inclusive/exclusive meaning it had.
C12_BoundRoundTrips ==
    /\ (hist = <<"convert31MinMaxTo30", "convert30MinMaxTo31">> /\ BoundState31(schemas0[1]))
          => /\ Lower31(schemas[1]) = Lower31(schemas0[1])
             /\ Upper31(schemas[1]) = Upper31(schemas0[1])
    /\ (hist = <<"convert30MinMaxTo31", "convert31MinMaxTo30">> /\ BoundState30(schemas0[1]))
          => /\ Lower30(schemas[1]) = Lower30(schemas0[1])
             /\ Upper30(schemas[1]) = Upper30(schemas0[1])

(***************************************************************************)
(* SpecExample: convert30ExampleTo31Examples and                           *)
(* convert31ExamplesTo30Example applied one after another, at most         *)
(* MaxRuleOps times, to one fragment with or without a singular example    *)
(* and with an example sequence of at most MaxExamples entries.            *)
(***************************************************************************)
MaxExamples == 2

\* the *yaml.Node values of the examples
ExampleNodes == {"a", "b"}

ExampleSequences == UNION {[1..n -> ExampleNodes] : n \in 0..MaxExamples}

InitExample ==
    /\ IdleOrch
    /\ IdleSwagger
    /\ \E example \in {<<>>} \cup {<<v>> : v \in ExampleNodes},
          examples \in ExampleSequences :
          schemas = <<[EmptySchema EXCEPT !.Type = <<"string">>,
                                          !.Example = example,
                                          !.Examples = examples]>>
    /\ schemas0 = schemas
    /\ doc = EmptyDocument
    /\ calls = <<>>
    /\ started = <<>>
    /\ hist = <<>>

Convert30ExampleTo31Examples ==
    /\ Len(hist) < MaxRuleOps
    /\ schemas' = [schemas EXCEPT ![1] = convert30ExampleTo31Examples(@)]
    /\ hist' = Append(hist, "convert30ExampleTo31Examples")
    /\ UNCHANGED <<schemas0, doc, calls, started>>
    /\ UNCHANGED orchVars
    /\ UNCHANGED swaggerVars

Convert31ExamplesTo30Example ==
    /\ Len(hist) < MaxRuleOps
    /\ schemas' = [schemas EXCEPT ![1] = convert31ExamplesTo30Example(@)]
    /\ hist' = Append(hist, "convert31ExamplesTo30Example")
    /\ UNCHANGED <<schemas0, doc, calls, started>>
    /\ UNCHANGED orchVars
    /\ UNCHANGED swaggerVars

NextExample == Convert30ExampleTo31Examples \/ Convert31ExamplesTo30Example

SpecExample == InitExample /\ [][NextExample]_vars

(***************************************************************************)
(* Claims about the examples, checked under SpecExample.                   *)
(***************************************************************************)
\* C13: a 3.0 fragment with a singular example and no example sequence is
\* the same fragment again after convert30ExampleTo31Examples followed by
\* convert31ExamplesTo30Example; a 3.1 fragment with a one-entry example
\* sequence and no singular example is the same fragment again after
\* convert31ExamplesTo30Example followed by convert30ExampleTo31Examples; a
\* 3.1 fragment with more than one entry has, after
\* convert31ExamplesTo30Example, the first entry as its singular example and
\* an empty example sequence.
C13_ExampleRoundTrips ==
    /\ (/\ hist = <<"convert30ExampleTo31Examples", "convert31ExamplesTo30Example">>
         /\ schemas0[1].Example # <<>>
         /\ schemas0[1].Examples = <<>>)
          => schemas = schemas0
    /\ (/\ hist = <<"convert31ExamplesTo30Example", "convert30ExampleTo31Examples">>
         /\ schemas0[1].Example = <<>>
         /\ Len(schemas0[1].Examples) = 1)
          => schemas = schemas0
    /\ (/\ hist = <<"convert31ExamplesTo30Example">>
         /\ schemas0[1].Example = <<>>
         /\ Len(schemas0[1].Examples) > 1)
          => /\ schemas[1].Example = <<schemas0[1].Examples[1]>>
             /\ schemas[1].Examples = <<>>
             /\ schemas[1] = [schemas0[1] EXCEPT !.Example = schemas[1].Example,
                                                 !.Examples = <<>>]

C13_Witness ==
    /\ hist = <<"convert31ExamplesTo30Example">>
    /\ schemas0[1].Example = <<>>
    /\ schemas0[1].Examples = <<"a", "b">>
    /\ schemas[1].Example = <<"a">>
    /\ schemas[1].Examples = <<>>

(***************************************************************************)
(* SpecFormat: convert30FormatsTo31ContentFields and                       *)
(* convert31ContentFieldsTo30Formats applied one after another, at most    *)
(* MaxRuleOps times, to one fragment.  A fragment without a low-level      *)
(* schema has no markers; the 3.0 -> 3.1 callback only meets fragments of  *)
(* a document that was just parsed, which have one.                        *)
(***************************************************************************)
FormatTypes == {<<"string">>, <<"integer">>, <<"string", "null">>, <<>>}
FormatNames == {"", "binary", "byte", "base64", "date"}
MediaTypes == {"", "application/octet-stream", "base64", "text/plain"}
Encodings == {"", "base64", "7bit"}

InitFormat ==
    /\ IdleOrch
    /\ IdleSwagger
    /\ \E type \in FormatTypes, format \in FormatNames, hasLow \in BOOLEAN,
          contentMediaType \in MediaTypes, contentEncoding \in Encodings :
          /\ ~hasLow => contentMediaType = "" /\ contentEncoding = ""
          /\ schemas = <<[EmptySchema EXCEPT !.Type = type,
                                             !.Format = format,
                                             !.hasLow = hasLow,
                                             !.ContentMediaType = contentMediaType,
                                             !.ContentEncoding = contentEncoding]>>
    /\ schemas0 = schemas
    /\ doc = EmptyDocument
    /\ calls = <<>>
    /\ started = <<>>
    /\ hist = <<>>

Convert30FormatsTo31ContentFields ==
    /\ Len(hist) < MaxRuleOps
    /\ schemas[1].hasLow
    /\ schemas' = [schemas EXCEPT ![1] = convert30FormatsTo31ContentFields(@)]
    /\ hist' = Append(hist, "convert30FormatsTo31ContentFields")
    /\ UNCHANGED <<schemas0, doc, calls, started>>
    /\ UNCHANGED orchVars
    /\ UNCHANGED swaggerVars

Convert31ContentFieldsTo30Formats ==
    /\ Len(hist) < MaxRuleOps
    /\ schemas' = [schemas EXCEPT ![1] = convert31ContentFieldsTo30Formats(@)]
    /\ hist' = Append(hist, "convert31ContentFieldsTo30Formats")
    /\ UNCHANGED <<schemas0, doc, calls, started>>
    /\ UNCHANGED orchVars
    /\ UNCHANGED swaggerVars

NextFormat == Convert30FormatsTo31ContentFields \/ Convert31ContentFieldsTo30Formats

SpecFormat == InitFormat /\ [][NextFormat]_vars

(***************************************************************************)
(* Claims about the binary string encoding, checked under SpecFormat.      *)
(***************************************************************************)
SoleString(schema) == schema.Type = <<"string">>

\* what the claim says of one application of convert30FormatsTo31ContentFields
FormatsToContentFields(before, after) ==
    IF SoleString(before)
    THEN /\ before.Format \in {"binary", "byte"}
               => after.ContentMediaType = "base64" /\ after.Format = ""
         /\ before.Format = "base64"
               => after.ContentEncoding = "base64" /\ after.Format = ""
    ELSE after = before

MaxRequired == 2

PropertyNames == <<"a", "b">>
RequiredNames == {"a", "b", "c"}
RequiredLists == UNION {[1..n -> RequiredNames] : n \in 0..MaxRequired}

\* the heap of a fragment with the properties named in present, in the
\* order of PropertyNames
SchemaWithProperties(required, present, readOnly) ==
    LET names == SelectSeq(PropertyNames, LAMBDA name : name \in present)
    IN  <<[EmptySchema EXCEPT
              !.Type = <<"object">>,
              !.Required = required,
              !.Properties = [i \in 1..Len(names) |->
                                 [name |-> names[i], schema |-> i + 1]]]>>
        \o [i \in 1..Len(names) |->
               [EmptySchema EXCEPT !.Type = <<"string">>,
                                   !.ReadOnly = readOnly[names[i]]]]

InitRequired ==
    /\ IdleOrch
    /\ IdleSwagger
    /\ \E required \in RequiredLists, present \in SUBSET Range(PropertyNames),
          readOnly \in [Range(PropertyNames) -> BoolPointers] :
          /\ \A name \in Range(PropertyNames) \ present : readOnly[name] = "nil"
          /\ schemas = SchemaWithProperties(required, present, readOnly)
    /\ schemas0 = schemas
    /\ doc = EmptyDocument
    /\ calls = <<>>
    /\ started = <<>>
    /\ hist = <<>>

Make30RequiredAndReadonlyPropertiesOnlyReadonly ==
    /\ Len(hist) < MaxRuleOps
    /\ schemas' = make30RequiredAndReadonlyPropertiesOnlyReadonly(schemas, 1)
    /\ hist' = Append(hist, "make30RequiredAndReadonlyPropertiesOnlyReadonly")
    /\ UNCHANGED <<schemas0, doc, calls, started>>
    /\ UNCHANGED orchVars
    /\ UNCHANGED swaggerVars

NextRequired == Make30RequiredAndReadonlyPropertiesOnlyReadonly

SpecRequired == InitRequired /\ [][NextRequired]_vars

(***************************************************************************)
(* Claims about required and read-only, checked under SpecRequired.        *)
(***************************************************************************)
\* name is the name of a property of fragment n whose schema is read-only
ReadOnlyProperty(st, n, name) ==
    \E i \in 1..Len(st[n].Properties) :
        /\ st[n].Properties[i].name = name
        /\ st[st[n].Properties[i].schema].ReadOnly = "true"

\* C18: after make30RequiredAndReadonlyPropertiesOnlyReadonly on a fragment
\* with a required list and properties, no name in required names a
\* read-only property, required is the original list without exactly those
\* names, in the original order, and nothing else of the fragment or of its
\* properties has changed; a fragment without required or without
\* properties is unchanged.
C18_RequiredWithoutReadOnly ==
    hist # <<>> =>
        IF Len(schemas0[1].Required) > 0 /\ Len(schemas0[1].Properties) > 0
        THEN /\ \A i \in 1..Len(schemas[1].Required) :
                   ~ReadOnlyProperty(schemas, 1, schemas[1].Required[i])
             /\ schemas[1].Required =
                   SelectSeq(schemas0[1].Required,
                             LAMBDA name : ~ReadOnlyProperty(schemas0, 1, name))
             /\ schemas = [schemas0 EXCEPT ![1].Required = schemas[1].Required]
        ELSE schemas = schemas0

C18_Witness ==
    /\ hist = <<"make30RequiredAndReadonlyPropertiesOnlyReadonly">>
    /\ schemas0[1].Required = <<"c", "a">>
    /\ ReadOnlyProperty(schemas0, 1, "a")
    /\ schemas[1].Required = <<"c">>

(***************************************************************************)
(* The Swagger 2.0 document of the downgrade normalizer.  kinSwaggerDoc is *)
(* a record of Definitions, a map from names to definitions (nil and the   *)
(* empty map are both the empty function), and Paths, the path items in    *)
(* some order.  A path item maps each of the seven method names to a       *)
(* pointer to an operation: the empty sequence (nil) or a one-element      *)
(* sequence.  A string that the normalizer builds is the sequence of the   *)
(* pieces it is put together from, each piece a tuple of strings; the      *)
(* empty string is the empty sequence.  An operation identifier is the     *)
(* sequence of its characters.                                             *)
(***************************************************************************)
\* main.go:813-819: the fields of a path item the normalizer goes through
Methods == <<"Delete", "Get", "Head", "Options", "Patch", "Post", "Put">>

\* strings.LastIndex(s, c), counted from 1; 0 when c is not in s
LastIndex(s, c) ==
    LET idx == {i \in 1..Len(s) : s[i] = c}
    IN  IF idx = {} THEN 0 ELSE CHOOSE i \in idx : \A j \in idx : j <= i

\* main.go:652-663: methodName
MethodName(OperationID) ==
    IF OperationID # <<>>
    THEN LET idx == LastIndex(OperationID, "_")
         IN  IF idx >= 1 /\ idx < Len(OperationID)
             THEN SubSeq(OperationID, idx + 1, Len(OperationID))
             ELSE OperationID
    ELSE <<>>

\* "\n\n" and "\n", main.go:675
BlankLine == <<"\n\n">>
LineBreak == <<"\n">>

\* main.go:669: the prefix naming the gRPC client, followed by the name
ClientNamePiece(grpcClientName) == <<"grpcClientName:", grpcClientName>>

\* main.go:672: the prefix naming the interface method, followed by the name
MethodNamePiece(methodName) == <<"methodName:">> \o methodName

\* main.go:665-678: grpcInfo
GrpcInfo(grpcClientName, methodName) ==
    LET parts == (IF grpcClientName # "" THEN <<ClientNamePiece(grpcClientName)>> ELSE <<>>)
                 \o (IF methodName # <<>> THEN <<MethodNamePiece(methodName)>> ELSE <<>>)
    IN  IF Len(parts) = 0 THEN <<>>
        ELSE IF Len(parts) = 1 THEN <<BlankLine, parts[1]>>
        ELSE <<BlankLine, parts[1], LineBreak, parts[2]>>

\* strings.TrimPrefix(s, prefix) for a one-piece prefix, main.go:689
TrimPrefix(s, prefix) == IF s # <<>> /\ s[1] = prefix THEN Tail(s) ELSE s

\* copyDescriptionToSummary copying the description after the note was added
copyDescriptionToSummaryAfterNote(operation) ==
    IF operation = <<>> THEN operation
    ELSE LET op == operation[1]
             grpcClientName == IF Len(op.Tags) > 0 THEN op.Tags[1] ELSE ""
             grpcInfo == GrpcInfo(grpcClientName, MethodName(op.OperationID))
             description ==
                 IF grpcInfo # <<>>
                 THEN IF op.Description # <<>>
                      THEN op.Description \o grpcInfo
                      ELSE TrimPrefix(grpcInfo, BlankLine)
                 ELSE op.Description
         IN  <<[op EXCEPT
                  !.Summary = IF op.Summary = <<>> /\ description # <<>>
                              THEN description ELSE @,
                  !.Description = description]>>

\* main.go:641-692
copyDescriptionToSummary(operation) ==
    IF operation = <<>> THEN operation
    ELSE LET op == operation[1]
             grpcClientName == IF Len(op.Tags) > 0 THEN op.Tags[1] ELSE ""
             grpcInfo == GrpcInfo(grpcClientName, MethodName(op.OperationID))
         IN  <<[op EXCEPT
                  !.Summary = IF op.Summary = <<>> /\ op.Description # <<>>
                              THEN op.Description ELSE @,
                  !.Description =
                      IF grpcInfo # <<>>
                      THEN IF op.Description # <<>>
                           THEN op.Description \o grpcInfo
                           ELSE TrimPrefix(grpcInfo, BlankLine)
                      ELSE @]>>

\* main.go:703-708: the loop over operation.Tags
RECURSIVE UniqueTags(_, _, _)
UniqueTags(tags, seen, uniqueTags) ==
    IF tags = <<>> THEN uniqueTags
    ELSE IF Head(tags) \in seen
    THEN UniqueTags(Tail(tags), seen, uniqueTags)
    ELSE UniqueTags(Tail(tags), seen \cup {Head(tags)}, Append(uniqueTags, Head(tags)))

\* the tags that are not repeated later in the sequence
LastOccurrences(tags) ==
    SelectSeq([i \in 1..Len(tags) |-> <<i, tags[i]>>],
              LAMBDA e : \A j \in (e[1] + 1)..Len(tags) : tags[j] # e[2])

\* deduplicateTags keeping the last occurrence of every tag
deduplicateTagsKeepLast(operation) ==
    IF operation = <<>> \/ Len(operation[1].Tags) = 0 THEN operation
    ELSE <<[operation[1] EXCEPT
              !.Tags = [i \in 1..Len(LastOccurrences(@)) |-> LastOccurrences(@)[i][2]]]>>

\* main.go:694-711
deduplicateTags(operation) ==
    IF operation = <<>> \/ Len(operation[1].Tags) = 0 THEN operation
    ELSE <<[operation[1] EXCEPT !.Tags = UniqueTags(@, {}, <<>>)]>>

\* main.go:730-735: the response stored under "default"
DefaultErrorResponse ==
    [Description |-> "An unexpected error response.", Ref |-> "#/definitions/rpcStatus"]

\* addDefaultErrorResponseToOperation leaving a "default" response that is there
addDefaultErrorResponseToOperationIfAbsent(operation) ==
    IF operation = <<>> THEN operation
    ELSE <<[operation[1] EXCEPT !.Responses = @ @@ ("default" :> DefaultErrorResponse)]>>

\* main.go:719-736
addDefaultErrorResponseToOperation(operation) ==
    IF operation = <<>> THEN operation
    ELSE <<[operation[1] EXCEPT !.Responses = ("default" :> DefaultErrorResponse) @@ @]>>

\* main.go:760-778: the definition stored under "googleprotobufAny", as its
\* type and the names and types of its properties
GoogleProtobufAny ==
    [Type |-> "object", Properties |-> {[name |-> "@type", Type |-> "string",
                                         Format |-> "", Items |-> ""]}]

\* main.go:783-808: the definition stored under "rpcStatus"
RpcStatus ==
    [Type |-> "object",
     Properties |-> {[name |-> "code", Type |-> "integer", Format |-> "int32", Items |-> ""],
                     [name |-> "message", Type |-> "string", Format |-> "", Items |-> ""],
                     [name |-> "details", Type |-> "array", Format |-> "",
                      Items |-> "#/definitions/googleprotobufAny"]}]

\* main.go:754-810: the definitions after the two names were looked up
EnsureDefinitions(Definitions) ==
    LET withAny == IF "googleprotobufAny" \in DOMAIN Definitions THEN Definitions
                   ELSE Definitions @@ ("googleprotobufAny" :> GoogleProtobufAny)
    IN  IF "rpcStatus" \in DOMAIN withAny THEN withAny
        ELSE withAny @@ ("rpcStatus" :> RpcStatus)

\* main.go:752-837.  The three loops of a path work on one operation each,
\* so an operation gets the three functions in the order of the loops.
addDefaultErrorResponses(swaggerDoc) ==
    [Definitions |-> EnsureDefinitions(swaggerDoc.Definitions),
     Paths |-> [i \in 1..Len(swaggerDoc.Paths) |->
                  [m \in Range(Methods) |->
                      addDefaultErrorResponseToOperation(
                          deduplicateTags(
                              copyDescriptionToSummary(swaggerDoc.Paths[i][m])))]]]

(***************************************************************************)
(* SpecNormalize: addDefaultErrorResponses applied, at most MaxRuleOps     *)
(* times, to a document of at most MaxPaths paths.  A path has no          *)
(* operation, one operation under any one method, or an operation under    *)
(* each of the seven; the definitions hold any of rpcStatus,               *)
(* googleprotobufAny and Pet, as the input document defined them.          *)
(***************************************************************************)
MaxPaths == 2

DefinitionNames == {"rpcStatus", "googleprotobufAny", "Pet"}

\* a definition of the input document
InputDefinition == [Type |-> "string", Properties |-> {}]

\* responses of the input document: under "200", under "default", both, none
OkResponse == [Description |-> "ok", Ref |-> ""]
InputDefaultResponse == [Description |-> "error", Ref |-> "#/definitions/Pet"]
ResponseMaps ==
    {<<>>, "200" :> OkResponse, "default" :> InputDefaultResponse,
     ("200" :> OkResponse) @@ ("default" :> InputDefaultResponse)}

MethodSets == {{}, Range(Methods)} \cup {{m} : m \in Range(Methods)}

NewOperation(Tags, Summary, Description, OperationID, Responses) ==
    [Tags |-> Tags, Summary |-> Summary, Description |-> Description,
     OperationID |-> OperationID, Responses |-> Responses]

PathItem(present, operation) ==
    [m \in Range(Methods) |-> IF m \in present THEN <<operation>> ELSE <<>>]

InitNormalize ==
    /\ IdleOrch
    /\ IdleSchema
    /\ \E names \in SUBSET DefinitionNames, n \in 0..MaxPaths, responses \in ResponseMaps :
          \E present \in [1..n -> MethodSets] :
              kinSwaggerDoc =
                  [Definitions |-> [d \in names |-> InputDefinition],
                   Paths |-> [i \in 1..n |->
                                PathItem(present[i],
                                         NewOperation(<<"t", "u", "t">>, <<>>, <<<<"d">>>>,
                                                      <<"m", "_", "m">>, responses))]]
    /\ kinSwaggerDoc0 = kinSwaggerDoc

AddDefaultErrorResponses ==
    /\ Len(hist) < MaxRuleOps
    /\ kinSwaggerDoc' = addDefaultErrorResponses(kinSwaggerDoc)
    /\ hist' = Append(hist, "addDefaultErrorResponses")
    /\ UNCHANGED <<kinSwaggerDoc0, schemas, schemas0, doc, calls, started>>
    /\ UNCHANGED orchVars

NextNormalize == AddDefaultErrorResponses

SpecNormalize == InitNormalize /\ [][NextNormalize]_vars

(***************************************************************************)
(* SpecOperation: copyDescriptionToSummary, deduplicateTags and            *)
(* addDefaultErrorResponseToOperation applied one after another, at most   *)
(* MaxRuleOps times, to the get operation of a one-path document.  The     *)
(* operation has at most MaxTags tags, an identifier of at most MaxIdLen   *)
(* characters, and a summary and a description that are empty or not.      *)
(***************************************************************************)
MaxTags == 3
MaxIdLen == 3

TagNames == {"t", "u"}
TagSequences == UNION {[1..n -> TagNames] : n \in 0..MaxTags}

IdChars == {"m", "_"}
OperationIDs == UNION {[1..n -> IdChars] : n \in 0..MaxIdLen}

InitOperation ==
    /\ IdleOrch
    /\ IdleSchema
    /\ \E Tags \in TagSequences, Summary \in {<<>>, <<<<"s">>>>},
          Description \in {<<>>, <<<<"d">>>>}, OperationID \in OperationIDs :
          kinSwaggerDoc =
              [Definitions |-> <<>>,
               Paths |-> <<PathItem({"Get"},
                                    NewOperation(Tags, Summary, Description, OperationID,
                                                 "200" :> OkResponse))>>]
    /\ kinSwaggerDoc0 = kinSwaggerDoc

CopyDescriptionToSummary ==
    /\ Len(hist) < MaxRuleOps
    /\ kinSwaggerDoc' = [kinSwaggerDoc EXCEPT !.Paths[1]["Get"] = copyDescriptionToSummary(@)]
    /\ hist' = Append(hist, "copyDescriptionToSummary")
    /\ UNCHANGED <<kinSwaggerDoc0, schemas, schemas0, doc, calls, started>>
    /\ UNCHANGED orchVars

DeduplicateTags ==
    /\ Len(hist) < MaxRuleOps
    /\ kinSwaggerDoc' = [kinSwaggerDoc EXCEPT !.Paths[1]["Get"] = deduplicateTags(@)]
    /\ hist' = Append(hist, "deduplicateTags")
    /\ UNCHANGED <<kinSwaggerDoc0, schemas, schemas0, doc, calls, started>>
    /\ UNCHANGED orchVars

AddDefaultErrorResponseToOperation ==
    /\ Len(hist) < MaxRuleOps
    /\ kinSwaggerDoc' =
          [kinSwaggerDoc EXCEPT !.Paths[1]["Get"] = addDefaultErrorResponseToOperation(@)]
    /\ hist' = Append(hist, "addDefaultErrorResponseToOperation")
    /\ UNCHANGED <<kinSwaggerDoc0, schemas, schemas0, doc, calls, started>>
    /\ UNCHANGED orchVars

NextOperation ==
    \/ CopyDescriptionToSummary
    \/ DeduplicateTags
    \/ AddDefaultErrorResponseToOperation

SpecOperation == InitOperation /\ [][NextOperation]_vars

(***************************************************************************)
(* Claims about addDefaultErrorResponses, checked under SpecNormalize.     *)
(***************************************************************************)
\* the operations of a document: the pairs of a path and a method that
\* have one
OperationsOf(swaggerDoc) ==
    {<<i, m>> \in (1..Len(swaggerDoc.Paths)) \X Range(Methods) : swaggerDoc.Paths[i][m] # <<>>}

InjectedNames == {"rpcStatus", "googleprotobufAny"}

TheOperation == kinSwaggerDoc.Paths[1]["Get"][1]
TheOperation0 == kinSwaggerDoc0.Paths[1]["Get"][1]

Applied(name) == hist' = Append(hist, name)

\* a piece that only the description note is made of
NotePiece(piece) == piece = BlankLine \/ piece = LineBreak
                    \/ piece[1] \in {"grpcClientName:", "methodName:"}

TimesApplied(h, name) == Cardinality({i \in 1..Len(h) : h[i] = name})

\* C16: copyDescriptionToSummary leaves a non-empty summary as it is and
\* turns an empty one into the description as it was before the note was
\* appended, which the description still starts with; the other two
\* functions of the normalizer leave the summary alone; after one run of
\* copyDescriptionToSummary on an operation no piece of the note is in
\* the summary.
C16_SummaryFromDescriptionBeforeNote ==
    [][/\ Applied("copyDescriptionToSummary")
            => /\ TheOperation'.Summary =
                     (IF TheOperation.Summary # <<>> THEN TheOperation.Summary
                      ELSE TheOperation.Description)
               /\ TheOperation.Summary = <<>>
                     => SubSeq(TheOperation'.Description, 1, Len(TheOperation'.Summary))
                           = TheOperation'.Summary
       /\ ~Applied("copyDescriptionToSummary")
            => TheOperation'.Summary = TheOperation.Summary
       /\ TimesApplied(hist', "copyDescriptionToSummary") <= 1
            => \A i \in 1..Len(TheOperation'.Summary) : ~NotePiece(TheOperation'.Summary[i])]_vars

C16_Witness ==
    /\ hist = <<"copyDescriptionToSummary", "deduplicateTags">>
    /\ TheOperation0.Summary = <<>>
    /\ TheOperation0.Description = <<<<"d">>>>
    /\ TheOperation0.Tags = <<"t", "t">>
    /\ TheOperation0.OperationID = <<"m", "_", "m">>
    /\ TheOperation.Summary = <<<<"d">>>>
    /\ TheOperation.Description =
          <<<<"d">>, BlankLine, <<"grpcClientName:", "t">>, LineBreak, <<"methodName:", "m">>>>

\* the characters after the last "_" of an identifier, the identifier itself
\* when it has none
AfterLastUnderscore(OperationID) ==
    IF LastIndex(OperationID, "_") = 0 THEN OperationID
    ELSE SubSeq(OperationID, LastIndex(OperationID, "_") + 1, Len(OperationID))

\* the note the claim describes: the piece of the first tag, if there is a
\* tag, and the piece of the method name, if it is not empty
ClaimedNote(op) ==
    LET tagPiece    == IF Len(op.Tags) > 0 THEN <<ClientNamePiece(op.Tags[1])>> ELSE <<>>
        methodName  == AfterLastUnderscore(op.OperationID)
        methodPiece == IF methodName # <<>> THEN <<MethodNamePiece(methodName)>> ELSE <<>>
    IN  IF tagPiece # <<>> /\ methodPiece # <<>>
        THEN tagPiece \o <<LineBreak>> \o methodPiece
        ELSE tagPiece \o methodPiece

\* C17: copyDescriptionToSummary appends to the description, after a blank
\* line when there is a description to append to, the note made of the
\* first-tag piece and of the method-name piece, where the method name is
\* what follows the last underscore of the operation identifier, or the
\* whole identifier when it has no underscore; with both pieces empty the
\* description is unchanged.
C17_NoteFromTagAndMethodName ==
    [][Applied("copyDescriptionToSummary")
         => IF ClaimedNote(TheOperation) = <<>>
            THEN TheOperation'.Description = TheOperation.Description
            ELSE TheOperation'.Description =
                    (IF TheOperation.Description # <<>>
                     THEN TheOperation.Description \o <<BlankLine>> ELSE <<>>)
                    \o ClaimedNote(TheOperation)]_vars

NoRepeats(tags) == \A i, j \in 1..Len(tags) : i # j => tags[i] # tags[j]

FirstIndex(tags, tag) == CHOOSE i \in 1..Len(tags) : tags[i] = tag /\ \A j \in 1..(i - 1) : tags[j] # tag

IsSubsequence(sub, tags) ==
    \E at \in [1..Len(sub) -> 1..Len(tags)] :
        /\ \A i \in 1..Len(sub) : tags[at[i]] = sub[i]
        /\ \A i, j \in 1..Len(sub) : i < j => at[i] < at[j]

\* C19: deduplicateTags leaves a tag sequence without repeated tag, with
\* exactly the tags of the input, that is a subsequence of the input and has
\* the tags in the order of their first occurrences; the first tag stays
\* the first, and a sequence without repeats is left as it is.
C19_DistinctTagsInFirstOccurrenceOrder ==
    [][Applied("deduplicateTags")
         => LET tags   == TheOperation.Tags
                result == TheOperation'.Tags
            IN  /\ NoRepeats(result)
                /\ Range(result) = Range(tags)
                /\ IsSubsequence(result, tags)
                /\ \A i, j \in 1..Len(result) :
                      i < j => FirstIndex(tags, result[i]) < FirstIndex(tags, result[j])
                /\ tags # <<>> => result[1] = tags[1]
                /\ NoRepeats(tags) => result = tags
                /\ TheOperation' = [TheOperation EXCEPT !.Tags = result]]_vars

C19_Witness ==
    /\ hist = <<"deduplicateTags", "deduplicateTags">>
    /\ TheOperation0.Tags = <<"t", "u", "t">>
    /\ TheOperation.Tags = <<"t", "u">>

(***************************************************************************)
(* A further claim about the binary string encoding, checked under         *)
(* SpecFormat.                                                             *)
(***************************************************************************)
\* C21: convert30FormatsTo31ContentFields leaves the format of a string
\* fragment as it is when the format is none of binary, byte and base64;
\* the format is cleared only where a marker is set.
C21_OtherFormatsKept ==
    [][(/\ hist' = Append(hist, "convert30FormatsTo31ContentFields")
        /\ SoleString(schemas[1])
        /\ schemas[1].Format \notin {"binary", "byte", "base64"})
       => schemas'[1].Format = schemas[1].Format]_vars

(***************************************************************************)
(* SpecUnion: the nullability rules of SpecRule applied to a fragment that *)
(* has, besides its type array, a oneOf of at most MaxOneOf members.       *)
(***************************************************************************)
MaxOneOf == 2

InitUnion ==
    /\ IdleOrch
    /\ IdleSwagger
    /\ \E type \in TypeArrays, members \in 1..MaxOneOf :
          schemas = <<[EmptySchema EXCEPT !.Type = type,
                                          !.OneOf = [i \in 1..members |-> i + 1]]>>
                    \o [i \in 1..members |-> [EmptySchema EXCEPT !.Type = <<"boolean">>]]
    /\ schemas0 = schemas
    /\ doc = EmptyDocument
    /\ calls = <<>>
    /\ started = <<>>
    /\ hist = <<>>

SpecUnion == InitUnion /\ [][NextRule]_vars

\* C22: convert31TypeArraysTo30 discards no oneOf member: every member the
\* fragment had before the rule, a fragment with a multi-type type array
\* that the rule expands into single-typed branches included, is a member
\* afterwards, and is the fragment it was.
C22_OneOfMembersKept ==
    [][hist' = Append(hist, "convert31TypeArraysTo30")
         => \A i \in 1..Len(schemas[1].OneOf) :
               /\ schemas[1].OneOf[i] \in Range(schemas'[1].OneOf)
               /\ schemas'[schemas[1].OneOf[i]] = schemas[schemas[1].OneOf[i]]]_vars

(***************************************************************************)
(* SpecCallback: the callbacks that the three steps hand to                *)
(* updateAllSchema, applied one after another, at most MaxRuleOps times,   *)
(* to one fragment of a parsed document with or without a nullable flag    *)
(* and a format.                                                           *)
(***************************************************************************)
InitCallback ==
    /\ IdleOrch
    /\ IdleSwagger
    /\ \E type \in {<<"string">>, <<"integer">>}, nullable \in BoolPointers,
          format \in FormatNames :
          schemas = <<[EmptySchema EXCEPT !.Type = type,
                                          !.Nullable = nullable,
                                          !.Format = format]>>
    /\ schemas0 = schemas
    /\ doc = EmptyDocument
    /\ calls = <<>>
    /\ started = <<>>
    /\ hist = <<>>

\* callback(schema), main.go:430, on the fragment
CallCallback ==
    /\ Len(hist) < MaxRuleOps
    /\ \E cb \in Callbacks :
          /\ schemas' = Callback(cb, schemas, 1)
          /\ hist' = Append(hist, cb)
    /\ UNCHANGED <<schemas0, doc, calls, started>>
    /\ UNCHANGED orchVars
    /\ UNCHANGED swaggerVars

SpecCallback == InitCallback /\ [][CallCallback]_vars

\* what the callback of the 3.0 -> 3.1 step makes of the fragment without
\* its nullable flag
WithoutNullable(schema) ==
    Callback("convertOpenAPI30To31", <<[schema EXCEPT !.Nullable = "nil"]>>, 1)[1]

\* C23: when the callback of the 3.0 -> 3.1 step is applied to a fragment
\* {type: string, nullable: true, format: F} with F one of binary, byte and
\* base64, the fragment has no format afterwards and has the markers that
\* the same fragment without the nullable flag gets.
C23_EncodingWhateverNullable ==
    [][(/\ hist' = Append(hist, "convertOpenAPI30To31")
        /\ schemas[1].Type = <<"string">>
        /\ schemas[1].Nullable = "true"
        /\ schemas[1].Format \in {"binary", "byte", "base64"})
       => /\ schemas'[1].Format = ""
          /\ schemas'[1].ContentMediaType = WithoutNullable(schemas[1]).ContentMediaType
          /\ schemas'[1].ContentEncoding = WithoutNullable(schemas[1]).ContentEncoding]_vars

=============================================================================
